---- MODULE Spec2Model ----
(***************************************************************************)
(* The log route of the container control panel                            *)
(* (src/backend/index.js, router.get('/containers/:id/logs')): the frame   *)
(* demultiplexer of the 'data' handler and the event-stream bridge around  *)
(* it (keep-alive timer, end / error / close handlers, open failure).      *)
(*                                                                         *)
(* Bytes are numbers 0..255 and buffers are sequences of bytes.  A string  *)
(* is the sequence of its code points.  `out' records every res.write the  *)
(* route performs, in order, as a record naming the written line, whether  *)
(* or not a consumer is still there to receive it.                         *)
(*                                                                         *)
(* The upstream is the Readable that container.logs resolves to.  It is    *)
(* taken to behave as Node's streams do: 'data' only while it flows, at    *)
(* most one of 'end' and 'error', once, and no event after either or after *)
(* destroy().  The request emits 'close' once, at any time, and a handler  *)
(* registered after that never runs.  A cleared interval does not fire.    *)
(***************************************************************************)
EXTENDS Integers, Sequences, FiniteSets

VARIABLES
    pc,           \* position of the async route function
    status,       \* what the response was opened as: "none", "404", "sse"
    heartbeat,    \* the setInterval timer: "unset", "active", "cleared"
    logStream,    \* the upstream stream: "none", "flowing", "ended", "errored", "destroyed"
    leftOver,     \* let leftOver = Buffer.alloc(0)
    out,          \* the res.write calls made so far
    resEnded,     \* res.end() was called
    reqClosed,    \* the request emitted 'close' (the consumer is gone)
    frames,       \* the frames the container engine sends first on this stream
    source,       \* the bytes it has to deliver: the encoded frames and a tail
    chunks,       \* history: the chunks handed to the 'data' handler so far
    framesOut,    \* history: header+payload bytes of every frame emitted so far
    clearCalls,   \* history: number of clearInterval(heartbeat) calls
    destroyCalls, \* history: number of logStream.destroy() calls
    errs,         \* history: the messages of the errors the route was handed
    bridges,      \* two concurrent requests of the log route, by request
    closures,     \* their leftOver buffers, by the scope that declares them
    client,       \* the LogModal effect of the browser client
    probe,        \* one request of POST /test-connection
    nginx         \* the stored site definitions and the requests of POST /configs

\* The variables of the log route's single request.
logVars == <<pc, status, heartbeat, logStream, leftOver, out, resEnded, reqClosed,
             frames, source, chunks, framesOut, clearCalls, destroyCalls, errs>>

\* The variables that a step of the single request leaves alone.
outside == <<bridges, closures, client, probe, nginx>>

\* The same, for a step that is handed no error.
quiet == <<errs, outside>>

vars == <<logVars, outside>>

(***************************************************************************)
(* Bounds of the model.                                                    *)
(***************************************************************************)
MaxFrames == 1      \* frames in a generated upstream byte stream
MaxPayload == 2     \* payload bytes of a generated frame
MaxChunks == 2      \* 'data' events per bridge
MaxTicks == 2       \* keep-alive ticks per bridge

(***************************************************************************)
(* Buffer helpers, with the semantics of the Node Buffer methods used.     *)
(***************************************************************************)
Min(a, b) == IF a <= b THEN a ELSE b

\* buffer.slice(start, end): bytes start .. end-1 (0-based), end clamped.
Slice(buffer, start, end) == SubSeq(buffer, start + 1, Min(end, Len(buffer)))

\* buffer.readUInt32BE(pos): big-endian 32-bit unsigned at 0-based pos.
ReadUInt32BE(buffer, pos) ==
    buffer[pos + 1] * 16777216 + buffer[pos + 2] * 65536
        + buffer[pos + 3] * 256 + buffer[pos + 4]

\* Buffer.concat([leftOver, chunk])
Concat(a, b) == a \o b

RECURSIVE Flatten(_)
Flatten(ss) == IF ss = <<>> THEN <<>> ELSE Head(ss) \o Flatten(Tail(ss))

(***************************************************************************)
(* Buffer.prototype.toString(): UTF-8 decoding.  An ill-formed sequence    *)
(* becomes U+FFFD (65533), one per maximal ill-formed subpart.  `needed'   *)
(* continuation bytes are outstanding for the code point `cp', the next    *)
(* one within lower..upper.                                                *)
(***************************************************************************)
RECURSIVE Utf8(_, _, _, _, _)
Utf8(bytes, cp, needed, lower, upper) ==
    IF bytes = <<>>
    THEN IF needed # 0 THEN <<65533>> ELSE <<>>
    ELSE LET b == Head(bytes)
             rest == Tail(bytes)
         IN  IF needed = 0
             THEN CASE b <= 127 -> <<b>> \o Utf8(rest, 0, 0, 128, 191)
                    [] b >= 194 /\ b <= 223 -> Utf8(rest, b % 32, 1, 128, 191)
                    [] b >= 224 /\ b <= 239 ->
                         Utf8(rest, b % 16, 2,
                              IF b = 224 THEN 160 ELSE 128,
                              IF b = 237 THEN 159 ELSE 191)
                    [] b >= 240 /\ b <= 244 ->
                         Utf8(rest, b % 8, 3,
                              IF b = 240 THEN 144 ELSE 128,
                              IF b = 244 THEN 143 ELSE 191)
                    [] OTHER -> <<65533>> \o Utf8(rest, 0, 0, 128, 191)
             ELSE IF b < lower \/ b > upper
                  THEN <<65533>> \o Utf8(bytes, 0, 0, 128, 191)
                  ELSE IF needed = 1
                       THEN <<cp * 64 + (b % 64)>> \o Utf8(rest, 0, 0, 128, 191)
                       ELSE Utf8(rest, cp * 64 + (b % 64), needed - 1, 128, 191)

ToString(bytes) == Utf8(bytes, 0, 0, 128, 191)

(***************************************************************************)
(* The lines written to the response.  `site' names the res.write call     *)
(* that produced the line.                                                 *)
(***************************************************************************)
\* '\n--- Container stream ended ---\n'
EndText ==
    <<10, 45, 45, 45, 32, 67, 111, 110, 116, 97, 105, 110, 101, 114, 32,
      115, 116, 114, 101, 97, 109, 32, 101, 110, 100, 101, 100, 32, 45, 45, 45, 10>>

\* res.write(`data: ${JSON.stringify({ text })}\n\n`) of the decode loop
TextEvent(text) == [kind |-> "data", key |-> "text", value |-> text, site |-> "payload"]

\* Mutant: the end of the stream is reported under a key of its own.
EndEventOwnKey == [kind |-> "data", key |-> "end", value |-> EndText, site |-> "end"]

\* res.write(`data: ${JSON.stringify({ text: '\n--- Container stream ended ---\n' })}\n\n`)
EndEvent == [kind |-> "data", key |-> "text", value |-> EndText, site |-> "end"]

\* res.write(`data: ${JSON.stringify({ error: err.message })}\n\n`) of the 'error' handler
ErrorEvent(msg) == [kind |-> "data", key |-> "error", value |-> msg, site |-> "error"]

\* res.write(`data: ${JSON.stringify({ error: error.message })}\n\n`) of the catch block
OpenErrorEvent(msg) == [kind |-> "data", key |-> "error", value |-> msg, site |-> "catch"]

\* res.write(': heartbeat\n\n')
HeartbeatEvent == [kind |-> "comment", key |-> "none", value |-> <<>>, site |-> "heartbeat"]

(***************************************************************************)
(* The decode loop of the 'data' handler:                                  *)
(*   while (offset + 8 <= buffer.length) {                                 *)
(*     const length = buffer.readUInt32BE(offset + 4);                     *)
(*     if (offset + 8 + length <= buffer.length) {                         *)
(*       text = buffer.slice(offset + 8, offset + 8 + length).toString();  *)
(*       res.write(...); offset += 8 + length;                             *)
(*     } else break; }                                                     *)
(* Returns the final offset and, per emitted frame, the text written and   *)
(* the bytes of buffer the frame occupied (raw, for the history).          *)
(***************************************************************************)
\* Mutant: the payload-complete test is missing, a frame is emitted from
\* whatever part of its payload has arrived.
RECURSIVE DecodeLoopNoWait(_, _, _)
DecodeLoopNoWait(buffer, offset, emitted) ==
    IF offset + 8 <= Len(buffer)
    THEN LET length == ReadUInt32BE(buffer, offset + 4)
         IN  DecodeLoopNoWait(buffer, offset + 8 + length,
                 Append(emitted,
                     [text |-> ToString(Slice(buffer, offset + 8, offset + 8 + length)),
                      raw |-> Slice(buffer, offset, offset + 8 + length)]))
    ELSE [offset |-> offset, emitted |-> emitted]

\* Mutant: an `if' in place of the `while', one frame per chunk at most.
DecodeLoopOnce(buffer, offset, emitted) ==
    IF offset + 8 <= Len(buffer)
           /\ offset + 8 + ReadUInt32BE(buffer, offset + 4) <= Len(buffer)
    THEN LET length == ReadUInt32BE(buffer, offset + 4)
         IN  [offset |-> offset + 8 + length,
              emitted |-> Append(emitted,
                  [text |-> ToString(Slice(buffer, offset + 8, offset + 8 + length)),
                   raw |-> Slice(buffer, offset, offset + 8 + length)])]
    ELSE [offset |-> offset, emitted |-> emitted]

\* Mutant: a frame of length 0 is consumed without being written.
RECURSIVE DecodeLoopSkipEmpty(_, _, _)
DecodeLoopSkipEmpty(buffer, offset, emitted) ==
    IF offset + 8 <= Len(buffer)
    THEN LET length == ReadUInt32BE(buffer, offset + 4)
         IN  IF offset + 8 + length <= Len(buffer)
             THEN DecodeLoopSkipEmpty(buffer, offset + 8 + length,
                      IF length = 0
                      THEN emitted
                      ELSE Append(emitted,
                          [text |-> ToString(Slice(buffer, offset + 8, offset + 8 + length)),
                           raw |-> Slice(buffer, offset, offset + 8 + length)]))
             ELSE [offset |-> offset, emitted |-> emitted]
    ELSE [offset |-> offset, emitted |-> emitted]

\* Mutant: only the frames of stdout (selector 1) are written.
RECURSIVE DecodeLoopStdoutOnly(_, _, _)
DecodeLoopStdoutOnly(buffer, offset, emitted) ==
    IF offset + 8 <= Len(buffer)
    THEN LET length == ReadUInt32BE(buffer, offset + 4)
         IN  IF offset + 8 + length <= Len(buffer)
             THEN DecodeLoopStdoutOnly(buffer, offset + 8 + length,
                      IF buffer[offset + 1] # 1
                      THEN emitted
                      ELSE Append(emitted,
                          [text |-> ToString(Slice(buffer, offset + 8, offset + 8 + length)),
                           raw |-> Slice(buffer, offset, offset + 8 + length)]))
             ELSE [offset |-> offset, emitted |-> emitted]
    ELSE [offset |-> offset, emitted |-> emitted]

RECURSIVE DecodeLoop(_, _, _)
DecodeLoop(buffer, offset, emitted) ==
    IF offset + 8 <= Len(buffer)
    THEN LET length == ReadUInt32BE(buffer, offset + 4)
         IN  IF offset + 8 + length <= Len(buffer)
             THEN DecodeLoop(buffer, offset + 8 + length,
                      Append(emitted,
                          [text |-> ToString(Slice(buffer, offset + 8, offset + 8 + length)),
                           raw |-> Slice(buffer, offset, offset + 8 + length)]))
             ELSE [offset |-> offset, emitted |-> emitted]
    ELSE [offset |-> offset, emitted |-> emitted]

\* Mutant: the undecoded rest of the buffer is not kept.
NewLeftOverDropped(buffer, offset) == <<>>

\* Mutant: the rest is taken from one byte too far.
NewLeftOverOffByOne(buffer, offset) == Slice(buffer, offset + 1, Len(buffer))

\* leftOver = buffer.slice(offset)
NewLeftOver(buffer, offset) == Slice(buffer, offset, Len(buffer))

\* The whole 'data' callback as a function of (leftOver, chunk).
DataHandler(left, chunk) ==
    LET buffer == Concat(left, chunk)
        r == DecodeLoop(buffer, 0, <<>>)
    IN  [texts |-> [i \in 1..Len(r.emitted) |-> r.emitted[i].text],
         raws |-> [i \in 1..Len(r.emitted) |-> r.emitted[i].raw],
         leftOver |-> NewLeftOver(buffer, r.offset)]

(***************************************************************************)
(* The upstream byte stream.  The container engine multiplexes stdout and  *)
(* stderr as frames: an 8-byte header (selector, three reserved bytes, a   *)
(* big-endian 32-bit payload length) and the payload.  The sources below   *)
(* are the byte streams the model lets the engine deliver.                 *)
(***************************************************************************)
Selectors == {1, 2}
PayloadBytes == {195, 169}

Header(sel, n) ==
    <<sel, 0, 0, 0, (n \div 16777216) % 256, (n \div 65536) % 256,
      (n \div 256) % 256, n % 256>>

Frame(sel, payload) == [sel |-> sel, payload |-> payload]

EncodeFrame(f) == Header(f.sel, Len(f.payload)) \o f.payload

RECURSIVE EncodeFrames(_)
EncodeFrames(fs) ==
    IF fs = <<>> THEN <<>> ELSE EncodeFrame(Head(fs)) \o EncodeFrames(Tail(fs))

Payloads == UNION {[1..n -> PayloadBytes] : n \in 0..MaxPayload}
FrameSet == {Frame(s, p) : s \in Selectors, p \in Payloads}
FrameSeqs == UNION {[1..n -> FrameSet] : n \in 0..MaxFrames}

\* "hello" and "!!"
Hello == <<104, 101, 108, 108, 111>>
Bangs == <<33, 33>>

\* An upstream: the frames it sends and the bytes that follow them.
Upstream(fs, tail) == [frames |-> fs, source |-> EncodeFrames(fs) \o tail]

\* header(sel=1,len=5) + "hello" + header(sel=1,len=2) + "!!"
HelloUpstream == Upstream(<<Frame(1, Hello), Frame(1, Bangs)>>, <<>>)

\* header(sel=1,len=5) + "hel" + "llo" + header(sel=1,len=2) + "!!": six
\* bytes behind a header that declares five.
HellloUpstream ==
    Upstream(<<>>, Header(1, 5) \o <<104, 101, 108>> \o <<108, 108, 111>>
                       \o Header(1, 2) \o Bangs)

\* A complete frame and a zero-length frame, then a frame whose header
\* declares 256 bytes of which two ever arrive.
TruncatedUpstream ==
    Upstream(<<Frame(1, <<195, 169>>), Frame(2, <<>>)>>, Header(1, 256) \o <<104, 105>>)

\* A zero-length frame with a frame behind it.
EmptyFirstUpstream == Upstream(<<Frame(2, <<>>), Frame(1, <<195, 169>>)>>, <<>>)

\* The upstreams of the demultiplexer specification: every sequence of at
\* most MaxFrames frames, and the four fixed ones.
DemuxUpstreams ==
    {Upstream(fs, <<>>) : fs \in FrameSeqs}
        \cup {HelloUpstream, HellloUpstream, TruncatedUpstream, EmptyFirstUpstream}

\* The upstreams of the bridge specification.
BridgeUpstreams == {TruncatedUpstream}

\* The messages of the errors the upstream or the open can fail with.
\* "aborted", "socket hang up"
ErrMsgs ==
    {<<97, 98, 111, 114, 116, 101, 100>>,
     <<115, 111, 99, 107, 101, 116, 32, 104, 97, 110, 103, 32, 117, 112>>}

Received == Flatten(chunks)

Ticks == Cardinality({i \in 1..Len(out) : out[i].site = "heartbeat"})

\* No second request and no client effect is running.
OutsideIdle ==
    /\ bridges = <<>>
    /\ closures = <<>>
    /\ client = <<>>
    /\ probe = <<>>
    /\ nginx = <<>>

(***************************************************************************)
(* The route.                                                              *)
(***************************************************************************)
Init ==
    /\ pc = "inspect"
    /\ status = "none"
    /\ heartbeat = "unset"
    /\ logStream = "none"
    /\ leftOver = <<>>
    /\ out = <<>>
    /\ resEnded = FALSE
    /\ reqClosed = FALSE
    /\ \E u \in BridgeUpstreams : frames = u.frames /\ source = u.source
    /\ chunks = <<>>
    /\ framesOut = <<>>
    /\ clearCalls = 0
    /\ destroyCalls = 0
    /\ errs = <<>>
    /\ OutsideIdle

\* Mutant: the 404 is sent without the return, the route goes on to open
\* the bridge.
InspectFailedNoReturn ==
    /\ pc = "inspect"
    /\ pc' = "opening"
    /\ status' = "404"
    /\ resEnded' = TRUE
    /\ heartbeat' = "active"
    /\ UNCHANGED <<logStream, leftOver, out, reqClosed, frames, source, chunks,
                   framesOut, clearCalls, destroyCalls>>
    /\ UNCHANGED quiet

\* await container.inspect() throws: return res.status(404).json(...)
InspectFailed ==
    /\ pc = "inspect"
    /\ pc' = "notfound"
    /\ status' = "404"
    /\ resEnded' = TRUE
    /\ UNCHANGED <<heartbeat, logStream, leftOver, out, reqClosed, frames, source, chunks,
                   framesOut, clearCalls, destroyCalls>>
    /\ UNCHANGED quiet

\* await container.inspect() returns: the headers are flushed, the heartbeat
\* timer is started and container.logs(...) is awaited.
InspectOk ==
    /\ pc = "inspect"
    /\ pc' = "opening"
    /\ status' = "sse"
    /\ heartbeat' = "active"
    /\ UNCHANGED <<logStream, leftOver, out, resEnded, reqClosed, frames, source, chunks,
                   framesOut, clearCalls, destroyCalls>>
    /\ UNCHANGED quiet

\* The setInterval callback: res.write(': heartbeat\n\n').
Tick ==
    /\ heartbeat = "active"
    /\ Ticks < MaxTicks
    /\ out' = Append(out, HeartbeatEvent)
    /\ UNCHANGED <<pc, status, heartbeat, logStream, leftOver, resEnded, reqClosed,
                   frames, source, chunks, framesOut, clearCalls, destroyCalls>>
    /\ UNCHANGED quiet

\* await container.logs(...) returns the stream: leftOver is allocated and
\* the 'data', 'end', 'error' and 'close' handlers are registered.
LogsOpened ==
    /\ pc = "opening"
    /\ pc' = "streaming"
    /\ logStream' = "flowing"
    /\ leftOver' = <<>>
    /\ UNCHANGED <<status, heartbeat, out, resEnded, reqClosed, frames, source, chunks,
                   framesOut, clearCalls, destroyCalls>>
    /\ UNCHANGED quiet

\* Mutant: the catch block reports the failure and leaves the timer running.
LogsFailedNoClear(msg) ==
    /\ pc = "opening"
    /\ pc' = "openfailed"
    /\ out' = Append(out, OpenErrorEvent(msg))
    /\ resEnded' = TRUE
    /\ UNCHANGED <<status, heartbeat, logStream, leftOver, reqClosed, frames, source,
                   chunks, framesOut, clearCalls, destroyCalls>>
    /\ errs' = Append(errs, msg)
    /\ UNCHANGED outside

\* await container.logs(...) throws: the catch block.
LogsFailed(msg) ==
    /\ pc = "opening"
    /\ pc' = "openfailed"
    /\ heartbeat' = "cleared"
    /\ clearCalls' = clearCalls + 1
    /\ out' = Append(out, OpenErrorEvent(msg))
    /\ resEnded' = TRUE
    /\ UNCHANGED <<status, logStream, leftOver, reqClosed, frames, source, chunks,
                   framesOut, destroyCalls>>
    /\ errs' = Append(errs, msg)
    /\ UNCHANGED outside

\* logStream.on('data', (chunk) => ...)
OnData(chunk) ==
    /\ pc = "streaming"
    /\ logStream = "flowing"
    /\ LET r == DataHandler(leftOver, chunk)
       IN  /\ out' = out \o [i \in 1..Len(r.texts) |-> TextEvent(r.texts[i])]
           /\ leftOver' = r.leftOver
           /\ framesOut' = framesOut \o r.raws
    /\ chunks' = Append(chunks, chunk)
    /\ UNCHANGED <<pc, status, heartbeat, logStream, resEnded, reqClosed, frames, source,
                   clearCalls, destroyCalls>>
    /\ UNCHANGED quiet

\* The upstream delivers its next bytes: any non-empty run of what is left.
Data ==
    /\ Len(chunks) < MaxChunks
    /\ \E n \in 1..(Len(source) - Len(Received)) :
          OnData(SubSeq(source, Len(Received) + 1, Len(Received) + n))

\* Mutant: the 'end' handler ends the response without the end event.
OnEndSilent ==
    /\ pc = "streaming"
    /\ logStream = "flowing"
    /\ logStream' = "ended"
    /\ heartbeat' = "cleared"
    /\ clearCalls' = clearCalls + 1
    /\ resEnded' = TRUE
    /\ UNCHANGED <<pc, status, leftOver, out, reqClosed, frames, source, chunks,
                   framesOut, destroyCalls>>
    /\ UNCHANGED quiet

\* Mutant: the 'end' handler writes the undecoded rest as a last payload.
OnEndFlush ==
    /\ pc = "streaming"
    /\ logStream = "flowing"
    /\ logStream' = "ended"
    /\ heartbeat' = "cleared"
    /\ clearCalls' = clearCalls + 1
    /\ out' = (IF leftOver = <<>> THEN out ELSE Append(out, TextEvent(ToString(leftOver))))
                  \o <<EndEvent>>
    /\ resEnded' = TRUE
    /\ UNCHANGED <<pc, status, leftOver, reqClosed, frames, source, chunks, framesOut,
                   destroyCalls>>
    /\ UNCHANGED quiet

\* logStream.on('end', () => ...)
OnEnd ==
    /\ pc = "streaming"
    /\ logStream = "flowing"
    /\ logStream' = "ended"
    /\ heartbeat' = "cleared"
    /\ clearCalls' = clearCalls + 1
    /\ out' = Append(out, EndEvent)
    /\ resEnded' = TRUE
    /\ UNCHANGED <<pc, status, leftOver, reqClosed, frames, source, chunks, framesOut,
                   destroyCalls>>
    /\ UNCHANGED quiet

\* Mutant: the 'error' handler does not end the response.
OnErrorNoEnd(msg) ==
    /\ pc = "streaming"
    /\ logStream = "flowing"
    /\ logStream' = "errored"
    /\ heartbeat' = "cleared"
    /\ clearCalls' = clearCalls + 1
    /\ out' = Append(out, ErrorEvent(msg))
    /\ errs' = Append(errs, msg)
    /\ UNCHANGED <<pc, status, leftOver, resEnded, reqClosed, frames, source, chunks,
                   framesOut, destroyCalls>>
    /\ UNCHANGED outside

\* Mutant: the 'error' handler leaves the heartbeat timer running.
OnErrorNoClear(msg) ==
    /\ pc = "streaming"
    /\ logStream = "flowing"
    /\ logStream' = "errored"
    /\ out' = Append(out, ErrorEvent(msg))
    /\ resEnded' = TRUE
    /\ UNCHANGED <<pc, status, heartbeat, leftOver, reqClosed, frames, source, chunks,
                   framesOut, clearCalls, destroyCalls>>
    /\ errs' = Append(errs, msg)
    /\ UNCHANGED outside

\* logStream.on('error', (err) => ...)
OnError(msg) ==
    /\ pc = "streaming"
    /\ logStream = "flowing"
    /\ logStream' = "errored"
    /\ heartbeat' = "cleared"
    /\ clearCalls' = clearCalls + 1
    /\ out' = Append(out, ErrorEvent(msg))
    /\ resEnded' = TRUE
    /\ UNCHANGED <<pc, status, leftOver, reqClosed, frames, source, chunks, framesOut,
                   destroyCalls>>
    /\ errs' = Append(errs, msg)
    /\ UNCHANGED outside

\* clearInterval(heartbeat): the timer is cleared, whatever it was.
ClearInterval(timer) == "cleared"

\* logStream.destroy(): a flowing stream is destroyed; on a stream that has
\* ended, failed or been destroyed the call changes nothing.
Destroy(ls) == IF ls = "flowing" THEN "destroyed" ELSE ls

\* Mutant: the 'close' handler also reports the end and ends the response.
CloseHandlerWrites(b) ==
    [b EXCEPT !.heartbeat = ClearInterval(@),
              !.clearCalls = @ + 1,
              !.logStream = Destroy(@),
              !.destroyCalls = @ + 1,
              !.out = Append(@, EndEvent),
              !.resEnded = TRUE]

\* req.on('close', () => { clearInterval(heartbeat); logStream.destroy(); })
\* on the part of a request's state that a handler can touch.
CloseHandler(b) ==
    [b EXCEPT !.heartbeat = ClearInterval(@),
              !.clearCalls = @ + 1,
              !.logStream = Destroy(@),
              !.destroyCalls = @ + 1]

\* That part of the single request's state.
BridgeState ==
    [heartbeat |-> heartbeat, clearCalls |-> clearCalls, logStream |-> logStream,
     destroyCalls |-> destroyCalls, out |-> out, resEnded |-> resEnded]

\* Mutant: the 'close' handler reports the end of the stream as the 'end'
\* handler does.
ReqCloseWrites ==
    /\ ~reqClosed
    /\ reqClosed' = TRUE
    /\ IF pc = "streaming"
       THEN /\ heartbeat' = "cleared"
            /\ clearCalls' = clearCalls + 1
            /\ destroyCalls' = destroyCalls + 1
            /\ logStream' = IF logStream = "flowing" THEN "destroyed" ELSE logStream
            /\ out' = Append(out, EndEvent)
            /\ resEnded' = TRUE
       ELSE UNCHANGED <<heartbeat, clearCalls, destroyCalls, logStream, out, resEnded>>
    /\ UNCHANGED <<pc, status, leftOver, frames, source, chunks, framesOut>>
    /\ UNCHANGED quiet

\* The consumer disconnects: the request emits 'close' once.  Only a handler
\* registered by then runs: req.on('close', () => { clearInterval(heartbeat);
\* logStream.destroy(); }).
ReqClose ==
    /\ ~reqClosed
    /\ reqClosed' = TRUE
    /\ IF pc = "streaming"
       THEN LET c == CloseHandler(BridgeState)
            IN  /\ heartbeat' = c.heartbeat
                /\ clearCalls' = c.clearCalls
                /\ destroyCalls' = c.destroyCalls
                /\ logStream' = c.logStream
                /\ out' = c.out
                /\ resEnded' = c.resEnded
       ELSE UNCHANGED <<heartbeat, clearCalls, destroyCalls, logStream, out, resEnded>>
    /\ UNCHANGED <<pc, status, leftOver, frames, source, chunks, framesOut>>
    /\ UNCHANGED quiet

Next ==
    \/ InspectFailed
    \/ InspectOk
    \/ Tick
    \/ LogsOpened
    \/ \E msg \in ErrMsgs : LogsFailed(msg)
    \/ Data
    \/ OnEnd
    \/ \E msg \in ErrMsgs : OnError(msg)
    \/ ReqClose

Spec == Init /\ [][Next]_vars

(***************************************************************************)
(* The demultiplexer on its own: a bridge that is streaming, fed every     *)
(* stream of DemuxSources in every split into at most MaxChunks chunks.    *)
(***************************************************************************)
DemuxInit ==
    /\ pc = "streaming"
    /\ status = "sse"
    /\ heartbeat = "active"
    /\ logStream = "flowing"
    /\ leftOver = <<>>
    /\ out = <<>>
    /\ resEnded = FALSE
    /\ reqClosed = FALSE
    /\ \E u \in DemuxUpstreams : frames = u.frames /\ source = u.source
    /\ chunks = <<>>
    /\ framesOut = <<>>
    /\ clearCalls = 0
    /\ destroyCalls = 0
    /\ errs = <<>>
    /\ OutsideIdle

DemuxNext == Data

DemuxSpec == DemuxInit /\ [][DemuxNext]_vars

(***************************************************************************)
(* What the properties below speak of.                                     *)
(***************************************************************************)
\* The texts of the payload events written so far, in order.
PayloadTexts(o) ==
    LET p == SelectSeq(o, LAMBDA e : e.site = "payload")
    IN  [i \in 1..Len(p) |-> p[i].value]

IsTerminal(e) == e.site \in {"end", "error", "catch"}

Terminals(o) == {i \in 1..Len(o) : IsTerminal(o[i])}

\* The offset in source at which frame k of the upstream ends.
FrameEnd(k) == Len(EncodeFrames(SubSeq(frames, 1, k)))

\* The frames of the upstream whose last byte has been received.
FramesArrived == {k \in 1..Len(frames) : FrameEnd(k) <= Len(Received)}

\* Header(1, 5) + "he" and "llo" + Header(1, 2) + "!!"
HelloChunks == <<Header(1, 5) \o <<104, 101>>, <<108, 108, 111>> \o Header(1, 2) \o Bangs>>

\* Header(1, 5) + "hel" and "llo" + Header(1, 2) + "!!"
HellloChunks == <<Header(1, 5) \o <<104, 101, 108>>, <<108, 108, 111>> \o Header(1, 2) \o Bangs>>

(***************************************************************************)
(* C1.  Chunk-boundary invariance: however the bytes received so far were  *)
(* grouped into chunks, the payload texts written are the ones the 'data'  *)
(* handler writes when it is given all of them as one chunk.               *)
(***************************************************************************)
C1_ChunkBoundaryInvariance ==
    PayloadTexts(out) = DataHandler(<<>>, Received).texts

\* A whole frame stream has arrived in two chunks, the first being the first
\* seven bytes of the first header, and its payloads were written.
C1_Witness ==
    /\ Len(chunks) = 2
    /\ Len(chunks[1]) = 7
    /\ Len(frames) = 2
    /\ Received = EncodeFrames(frames)
    /\ Len(PayloadTexts(out)) = 2
    /\ PayloadTexts(out)[1] # PayloadTexts(out)[2]

(***************************************************************************)
(* C2.  At most one terminal event (the end event, the error event of the  *)
(* 'error' handler or of the catch block) is written per bridge.           *)
(***************************************************************************)
C2_AtMostOneTerminal == Cardinality(Terminals(out)) <= 1

\* The consumer's close came after the upstream error was reported.
C2_Witness ==
    /\ logStream = "errored"
    /\ reqClosed
    /\ destroyCalls = 1
    /\ Cardinality(Terminals(out)) = 1

(***************************************************************************)
(* C3.  No heartbeat comment is written after a terminal event: once a     *)
(* terminal event is in the output the timer is not active, and no        *)
(* heartbeat line follows a terminal event.                                *)
(***************************************************************************)
C3_NoHeartbeatAfterTerminal ==
    /\ Terminals(out) # {} => heartbeat # "active"
    /\ \A i \in Terminals(out) : \A j \in (i + 1)..Len(out) : out[j].site # "heartbeat"

\* A terminal event was written while the timer had ticked and could tick again.
C3_Witness ==
    /\ Terminals(out) # {}
    /\ Ticks >= 1
    /\ Ticks < MaxTicks
    /\ out[1].site = "heartbeat"

(***************************************************************************)
(* C4.  After the consumer's 'close' the timer is stopped, the upstream is *)
(* not flowing, and nothing more is written to the response.               *)
(***************************************************************************)
C4_NothingAfterCancel ==
    [][/\ reqClosed' => heartbeat' # "active" /\ logStream' # "flowing"
       /\ reqClosed => out' = out]_vars

(***************************************************************************)
(* C5.  Byte-exact reconstruction: the frames emitted so far, header and   *)
(* payload, followed by the leftover buffer, are the bytes received so     *)
(* far; every emitted frame has all the bytes its header declares, and     *)
(* the payload events written are the decoded payloads of those frames.    *)
(***************************************************************************)
C5_ByteExact ==
    /\ Flatten(framesOut) \o leftOver = Received
    /\ \A i \in 1..Len(framesOut) :
          Len(framesOut[i]) = 8 + ReadUInt32BE(framesOut[i], 4)
    /\ PayloadTexts(out) =
          [i \in 1..Len(framesOut) |-> ToString(Slice(framesOut[i], 8, Len(framesOut[i])))]

\* Two chunks have arrived, a frame was emitted and bytes are left over.
C5_Witness ==
    /\ Len(chunks) = 2
    /\ Len(framesOut) >= 1
    /\ leftOver # <<>>
    /\ Len(chunks[1]) > 8
    /\ Len(framesOut[1]) > Len(chunks[1])

(***************************************************************************)
(* C6.  With an empty leftover, a chunk that is exactly N >= 1 complete    *)
(* frames writes exactly their N payloads, in order, and leaves the        *)
(* leftover empty.  (A chunk of no frames is the empty chunk, on which the *)
(* handler writes nothing and keeps the empty leftover.)                   *)
(***************************************************************************)
C6_WholeFramesChunk ==
    [][/\ \A i, j \in 1..Len(frames) :
             (/\ i <= j
              /\ leftOver = <<>>
              /\ chunks' = Append(chunks, EncodeFrames(SubSeq(frames, i, j))))
             => /\ out' = out \o [k \in 1..(j - i + 1) |->
                                     TextEvent(ToString(frames[i + k - 1].payload))]
                /\ leftOver' = <<>>
       /\ DataHandler(<<>>, <<>>) = [texts |-> <<>>, raws |-> <<>>, leftOver |-> <<>>]
      ]_vars

\* One chunk of two frames arrived and two payloads were written.
C6_Witness ==
    /\ Len(frames) = 2
    /\ chunks = <<EncodeFrames(frames)>>
    /\ Len(out) = 2
    /\ leftOver = <<>>

(***************************************************************************)
(* C7.  A zero-length frame that has arrived was written as one payload    *)
(* event with the empty text, at its place among the payloads; it took     *)
(* exactly its 8 header bytes, and the frame behind it, once arrived, was  *)
(* decoded from the next byte on.                                          *)
(***************************************************************************)
C7_ZeroLengthFrame ==
    \A k \in FramesArrived :
        frames[k].payload = <<>> =>
            /\ Len(PayloadTexts(out)) >= k
            /\ PayloadTexts(out)[k] = <<>>
            /\ framesOut[k] = Header(frames[k].sel, 0)
            /\ (k + 1) \in FramesArrived =>
                  /\ Len(PayloadTexts(out)) >= k + 1
                  /\ PayloadTexts(out)[k + 1] = ToString(frames[k + 1].payload)
                  /\ framesOut[k + 1] = EncodeFrame(frames[k + 1])

\* A zero-length frame and a frame with a payload behind it have arrived.
C7_Witness ==
    /\ Len(frames) = 2
    /\ frames[1].payload = <<>>
    /\ frames[2].payload # <<>>
    /\ FramesArrived = {1, 2}
    /\ Len(out) = 2
    /\ out[1] = TextEvent(<<>>)

(***************************************************************************)
(* C8.  When the upstream has ended, the bytes left over have produced     *)
(* nothing: the payloads written are those of the frames that arrived      *)
(* whole, no error event was written, and the last line is the one end     *)
(* event.                                                                  *)
(***************************************************************************)
C8_LeftoverDroppedAtEnd ==
    logStream = "ended" =>
        /\ out # <<>>
        /\ out[Len(out)] = EndEvent
        /\ \A i \in 1..(Len(out) - 1) : out[i].site \in {"payload", "heartbeat"}
        /\ PayloadTexts(out) =
              [k \in 1..Cardinality(FramesArrived) |-> ToString(frames[k].payload)]

\* The upstream ended with a header and part of its payload left over.
C8_Witness ==
    /\ logStream = "ended"
    /\ Len(leftOver) > 8
    /\ Len(PayloadTexts(out)) = 2

(***************************************************************************)
(* C9.  As claimed: the chunks Header(1,5)+"hel" and "llo"+Header(1,2)+"!!" *)
(* given to a fresh bridge write the payloads "hello" and "!!".            *)
(***************************************************************************)
C9_AsClaimed ==
    chunks = HellloChunks => PayloadTexts(out) = <<Hello, Bangs>>

(***************************************************************************)
(* C9, amended.  The chunks Header(1,5)+"he" and "llo"+Header(1,2)+"!!"    *)
(* given to a fresh bridge write the payloads "hello" and "!!".            *)
(***************************************************************************)
C9_HelloScenario ==
    chunks = HelloChunks => PayloadTexts(out) = <<Hello, Bangs>> /\ leftOver = <<>>

\* The two chunks of the amended scenario have arrived.
C9_Witness ==
    /\ chunks = HelloChunks
    /\ Len(out) = 2

(***************************************************************************)
(* C10.  The leftover never holds a whole frame: it is shorter than a      *)
(* header, or its header declares more bytes than it holds.                *)
(***************************************************************************)
C10_LeftoverInvariant ==
    \/ Len(leftOver) < 8
    \/ 8 + ReadUInt32BE(leftOver, 4) > Len(leftOver)

\* A chunk left a whole header and part of its payload behind emitted frames.
C10_Witness ==
    /\ chunks # <<>>
    /\ Len(leftOver) >= 8
    /\ framesOut # <<>>

\* The positions in o of the events written at a call site.
WrittenAt(o, site) == {i \in 1..Len(o) : o[i].site = site}

\* The texts the 'data' handler writes for the chunks cs, given one by one
\* to a handler whose leftover is left.
RECURSIVE Decoded(_, _)
Decoded(left, cs) ==
    IF cs = <<>>
    THEN <<>>
    ELSE LET r == DataHandler(left, Head(cs))
         IN  r.texts \o Decoded(r.leftOver, Tail(cs))

(***************************************************************************)
(* C11.  Once the upstream has emitted 'error', one event of the 'error'   *)
(* handler has been written, it carries the key error and the message of   *)
(* that error, it is the last thing written, and the response is ended.    *)
(***************************************************************************)
C11_ErrorTerminal ==
    logStream = "errored" =>
        /\ Len(errs) = 1
        /\ Cardinality(Terminals(out)) = 1
        /\ Cardinality(WrittenAt(out, "error")) = 1
        /\ out[Len(out)] = [kind |-> "data", key |-> "error", value |-> errs[1],
                            site |-> "error"]
        /\ resEnded

\* The upstream failed after a payload and a heartbeat had been written, and
\* the consumer has gone since.
C11_Witness ==
    /\ logStream = "errored"
    /\ WrittenAt(out, "payload") # {}
    /\ WrittenAt(out, "heartbeat") # {}
    /\ reqClosed

(***************************************************************************)
(* C12.  Once the upstream has emitted 'end', one end event has been       *)
(* written, it is the last thing written, the response is ended, and the   *)
(* texts decoded from the chunks received all stand before it.             *)
(***************************************************************************)
C12_EndTerminal ==
    logStream = "ended" =>
        /\ Cardinality(Terminals(out)) = 1
        /\ WrittenAt(out, "end") = {Len(out)}
        /\ out[Len(out)].key = "text" /\ out[Len(out)].value = EndText
        /\ resEnded
        /\ PayloadTexts(SubSeq(out, 1, Len(out) - 1)) = Decoded(<<>>, chunks)

\* The upstream ended after two chunks, of which payloads were decoded.
C12_Witness ==
    /\ logStream = "ended"
    /\ Len(chunks) = 2
    /\ Decoded(<<>>, chunks) # <<>>

(***************************************************************************)
(* C13.  When inspect has failed the route has answered 404 and ended the  *)
(* response, and nothing of the bridge exists: the event-stream status was *)
(* never set, no timer was created or cleared, no upstream was opened or   *)
(* destroyed, and nothing was written as an event.                         *)
(***************************************************************************)
C13_NotFound ==
    (pc = "notfound" \/ status = "404") =>
        /\ pc = "notfound"
        /\ status = "404"
        /\ resEnded
        /\ heartbeat = "unset"
        /\ logStream = "none"
        /\ out = <<>>
        /\ chunks = <<>>
        /\ clearCalls = 0
        /\ destroyCalls = 0

\* inspect failed and the consumer has gone since.
C13_Witness ==
    /\ pc = "notfound"
    /\ reqClosed

C16_TimerClearedAtClose ==
    (status = "sse" /\ (reqClosed \/ resEnded)) => heartbeat = "cleared"

(***************************************************************************)
(* C18.  Everything written is a data event whose JSON object has the one  *)
(* key text or the one key error, or it is the heartbeat comment, which    *)
(* carries nothing.                                                        *)
(***************************************************************************)
C18_EventShape ==
    \A i \in 1..Len(out) :
        \/ out[i].kind = "data" /\ out[i].key \in {"text", "error"}
        \/ out[i].kind = "comment" /\ out[i].key = "none" /\ out[i].value = <<>>

\* A payload, a heartbeat and the end event have been written.
C18_Witness ==
    /\ WrittenAt(out, "payload") # {}
    /\ WrittenAt(out, "heartbeat") # {}
    /\ WrittenAt(out, "end") # {}

(***************************************************************************)
(* Several requests to the log route, served concurrently.  Each call of   *)
(* the route handler has its own req and res (bridges) and binds its own   *)
(* heartbeat, logStream and leftOver (closures).  Every stream opened by   *)
(* container.logs(...) delivers PairSource from its beginning.  A callback *)
(* of one request runs to completion before the next callback starts.      *)
(***************************************************************************)
NBridges == 2

\* Requests served one after the other in one place of the model.
MaxRequests == 2

\* Heartbeats written by one request.
PairTicks == 1

Bridges == 1..NBridges

\* The bytes of a container's log stream: one frame and a stray byte.
PairSource == EncodeFrame(Frame(1, <<195, 169>>)) \o <<2>>

\* The sizes of the chunks a stream is delivered in.
PairSizes == {4, 7}

\* Mutant: heartbeat, logStream and leftOver are bound once for the module.
ClosureOfShared(b) == 1

\* const heartbeat, const logStream and let leftOver are declared inside the
\* route handler: each request has bindings of its own.
ClosureOf(b) == b

\* Mutant: the stream opened for a request resumes from the leftover that
\* the bindings held before.
OpenedLeftOverResumed(previous) == previous

\* let leftOver = Buffer.alloc(0): whatever an earlier stream left behind.
OpenedLeftOver(previous) == <<>>

\* A request as it arrives.
FreshRequest(n) ==
    [pc |-> "inspect", status |-> "none", out |-> <<>>, resEnded |-> FALSE,
     reqClosed |-> FALSE, received |-> 0, req |-> n]

\* Bindings not made yet.
Unbound == [heartbeat |-> "unset", logStream |-> "none", leftOver |-> <<>>]

\* A request together with the bindings of its handler call.
View(b) ==
    [pc |-> bridges[b].pc, status |-> bridges[b].status, out |-> bridges[b].out,
     resEnded |-> bridges[b].resEnded, reqClosed |-> bridges[b].reqClosed,
     received |-> bridges[b].received, req |-> bridges[b].req,
     heartbeat |-> closures[ClosureOf(b)].heartbeat,
     logStream |-> closures[ClosureOf(b)].logStream,
     leftOver |-> closures[ClosureOf(b)].leftOver]

RequestOf(st) ==
    [pc |-> st.pc, status |-> st.status, out |-> st.out, resEnded |-> st.resEnded,
     reqClosed |-> st.reqClosed, received |-> st.received, req |-> st.req]

BindingsOf(st) ==
    [heartbeat |-> st.heartbeat, logStream |-> st.logStream, leftOver |-> st.leftOver]

\* The callbacks of a request and what they are given.
Callbacks ==
    {[type |-> t, arg |-> <<>>] :
        t \in {"inspectFailed", "inspectOk", "tick", "opened", "end", "close"}}
    \cup {[type |-> "chunk", arg |-> n] : n \in PairSizes}
    \cup {[type |-> t, arg |-> msg] : t \in {"openFailed", "error"}, msg \in ErrMsgs}

\* The next chunk of n bytes at most.
NextChunk(st, n) ==
    SubSeq(PairSource, st.received + 1, Min(st.received + n, Len(PairSource)))

\* Whether the callback ev can run on a request in state st.
CanRun(st, ev) ==
    CASE ev.type \in {"inspectFailed", "inspectOk"} -> st.pc = "inspect"
      [] ev.type = "tick" ->
            /\ st.heartbeat = "active"
            /\ Cardinality(WrittenAt(st.out, "heartbeat")) < PairTicks
      [] ev.type \in {"opened", "openFailed"} -> st.pc = "opening"
      [] ev.type = "chunk" ->
            /\ st.pc = "streaming"
            /\ st.logStream = "flowing"
            /\ st.received < Len(PairSource)
      [] ev.type \in {"end", "error"} -> st.pc = "streaming" /\ st.logStream = "flowing"
      [] ev.type = "close" -> ~st.reqClosed

\* What the callback ev makes of a request in state st: the route and its
\* handlers, as in the actions of Spec.
Handle(st, ev) ==
    CASE ev.type = "inspectFailed" ->
            [st EXCEPT !.pc = "notfound", !.status = "404", !.resEnded = TRUE]
      [] ev.type = "inspectOk" ->
            [st EXCEPT !.pc = "opening", !.status = "sse", !.heartbeat = "active"]
      [] ev.type = "tick" ->
            [st EXCEPT !.out = Append(@, HeartbeatEvent)]
      [] ev.type = "opened" ->
            [st EXCEPT !.pc = "streaming", !.logStream = "flowing",
                       !.leftOver = OpenedLeftOver(@), !.received = 0]
      [] ev.type = "openFailed" ->
            [st EXCEPT !.pc = "openfailed", !.heartbeat = ClearInterval(@),
                       !.out = Append(@, OpenErrorEvent(ev.arg)), !.resEnded = TRUE]
      [] ev.type = "chunk" ->
            LET chunk == NextChunk(st, ev.arg)
                r == DataHandler(st.leftOver, chunk)
            IN  [st EXCEPT !.out = @ \o [i \in 1..Len(r.texts) |-> TextEvent(r.texts[i])],
                           !.leftOver = r.leftOver,
                           !.received = @ + Len(chunk)]
      [] ev.type = "end" ->
            [st EXCEPT !.logStream = "ended", !.heartbeat = ClearInterval(@),
                       !.out = Append(@, EndEvent), !.resEnded = TRUE]
      [] ev.type = "error" ->
            [st EXCEPT !.logStream = "errored", !.heartbeat = ClearInterval(@),
                       !.out = Append(@, ErrorEvent(ev.arg)), !.resEnded = TRUE]
      [] ev.type = "close" ->
            IF st.pc = "streaming"
            THEN [st EXCEPT !.reqClosed = TRUE, !.heartbeat = ClearInterval(@),
                            !.logStream = Destroy(@)]
            ELSE [st EXCEPT !.reqClosed = TRUE]

\* The single request of Spec has not arrived.
LogIdle ==
    /\ pc = "inspect"
    /\ status = "none"
    /\ heartbeat = "unset"
    /\ logStream = "none"
    /\ leftOver = <<>>
    /\ out = <<>>
    /\ resEnded = FALSE
    /\ reqClosed = FALSE
    /\ frames = <<>>
    /\ source = <<>>
    /\ chunks = <<>>
    /\ framesOut = <<>>
    /\ clearCalls = 0
    /\ destroyCalls = 0
    /\ errs = <<>>

PairInit ==
    /\ bridges = [b \in Bridges |-> FreshRequest(1)]
    /\ closures = [b \in Bridges |-> Unbound]
    /\ client = <<>>
    /\ probe = <<>>
    /\ nginx = <<>>
    /\ LogIdle

\* A callback of request b runs.
Callback(b, ev) ==
    /\ CanRun(View(b), ev)
    /\ LET nx == Handle(View(b), ev)
       IN  /\ bridges' = [bridges EXCEPT ![b] = RequestOf(nx)]
           /\ closures' = [closures EXCEPT ![ClosureOf(b)] = BindingsOf(nx)]
    /\ UNCHANGED <<logVars, client, probe, nginx>>

\* Nothing more can happen to the request but the consumer's 'close'.
Settled(st) ==
    /\ st.pc # "inspect"
    /\ st.heartbeat # "active"
    /\ st.logStream # "flowing"
    /\ st.pc # "opening"

\* A later request for the same container arrives when request b is over:
\* the handler is called again; its bindings are made as it proceeds, and
\* until then what the earlier call bound is still in memory.
NewRequest(b) ==
    /\ Settled(View(b))
    /\ bridges[b].req < MaxRequests
    /\ bridges' = [bridges EXCEPT ![b] = FreshRequest(bridges[b].req + 1)]
    /\ UNCHANGED <<closures, logVars, client, probe, nginx>>

PairNext ==
    \/ \E b \in Bridges, ev \in Callbacks : Callback(b, ev)
    \/ \E b \in Bridges : NewRequest(b)

PairSpec == PairInit /\ [][PairNext]_vars

\* What request b becomes when a later request takes its place.
Replaced(st) ==
    [st EXCEPT !.pc = "inspect", !.status = "none", !.out = <<>>, !.resEnded = FALSE,
               !.reqClosed = FALSE, !.received = 0, !.req = @ + 1]

(***************************************************************************)
(* C17.  Bridge isolation: in every step at most one request changes; it   *)
(* changes as one of its own callbacks makes of its own state, or by a new *)
(* request taking its place, and the timer, the upstream, the leftover,    *)
(* the response and what was written of every other request stay as they   *)
(* were.                                                                   *)
(***************************************************************************)
C17_Isolation ==
    [][\A b \in Bridges :
          \/ View(b)' = View(b)
          \/ /\ \/ \E ev \in Callbacks :
                      CanRun(View(b), ev) /\ View(b)' = Handle(View(b), ev)
                \/ Settled(View(b)) /\ View(b)' = Replaced(View(b))
             /\ \A c \in Bridges \ {b} : View(c)' = View(c)]_vars

\* One request has failed and written its error while the other one is
\* flowing with its timer running, a payload written and bytes left over.
C17_Witness ==
    /\ View(1).logStream = "errored"
    /\ View(1).resEnded
    /\ View(2).logStream = "flowing"
    /\ View(2).heartbeat = "active"
    /\ ~View(2).resEnded
    /\ View(2).leftOver # <<>>
    /\ WrittenAt(View(2).out, "payload") # {}

(***************************************************************************)
(* C20.  No resume: the payloads a streaming request has written and the   *)
(* bytes it holds as leftover are those the 'data' handler makes, starting *)
(* from an empty leftover, of the bytes its own stream has delivered;      *)
(* nothing of an earlier or of another request is in them.                 *)
(***************************************************************************)
C20_NoResume ==
    \A b \in Bridges :
        View(b).pc = "streaming" =>
            LET own == DataHandler(<<>>, SubSeq(PairSource, 1, View(b).received))
            IN  /\ PayloadTexts(View(b).out) = own.texts
                /\ View(b).leftOver = own.leftOver

\* A second request in the place of a first one is streaming and has
\* written a payload, while another request for the same container has
\* ended with bytes left over.
C20_Witness ==
    /\ View(1).req = 2
    /\ View(1).pc = "streaming"
    /\ WrittenAt(View(1).out, "payload") # {}
    /\ View(2).logStream = "ended"
    /\ View(2).leftOver # <<>>

(***************************************************************************)
(* The consumer: the effect of LogModal.                                   *)
(*   let es;                                                               *)
(*   const connect = () => {                                               *)
(*     es = new EventSource(...);                                          *)
(*     es.onopen = () => setStatus('connected');                           *)
(*     es.onerror = () => { setStatus('reconnecting'); es.close();         *)
(*                          setTimeout(connect, 3000); };                  *)
(*   };                                                                    *)
(*   connect();                                                            *)
(*   return () => { if (es) es.close(); };                                 *)
(* client.conns is every EventSource made so far, with the time it was     *)
(* made at and the time, if any, it reported an error at; client.es is the *)
(* one the variable es refers to; client.timers holds the times at which a *)
(* pending setTimeout is due.  Time is counted in seconds.  An EventSource *)
(* reports events only until it is closed.  onmessage changes the          *)
(* displayed text only and is left out.                                    *)
(***************************************************************************)
\* setTimeout(connect, 3000), in seconds
ReconnectDelay == 3

\* EventSources made by one effect.
MaxConnects == 3

\* The clock stops here.
MaxTime == 8

Live(conn) == conn.state \in {"connecting", "open"}

\* es.close()
Close(conns, i) ==
    IF i \in 1..Len(conns) THEN [conns EXCEPT ![i].state = "closed"] ELSE conns

\* connect(): es = new EventSource(...)
connect(c) ==
    [c EXCEPT !.conns = Append(@, [state |-> "connecting", openedAt |-> c.now,
                                   erroredAt |-> {}]),
              !.es = Len(c.conns) + 1]

\* The effect has run: connect() was called once.
ClientInit ==
    /\ client = connect([mounted |-> TRUE, status |-> "connecting", conns |-> <<>>,
                         es |-> 0, timers |-> {}, now |-> 0])
    /\ bridges = <<>>
    /\ closures = <<>>
    /\ probe = <<>>
    /\ nginx = <<>>
    /\ LogIdle

\* es.onopen = () => setStatus('connected')
EsOpen(i) ==
    /\ client.conns[i].state = "connecting"
    /\ client' = [client EXCEPT !.conns[i].state = "open", !.status = "connected"]
    /\ UNCHANGED <<logVars, bridges, closures, probe, nginx>>

\* Mutant: the error handler schedules the retry without closing es.
EsErrorNoClose(i) ==
    /\ Live(client.conns[i])
    /\ client' = [client EXCEPT !.status = "reconnecting",
                                !.conns[i].erroredAt = {client.now},
                                !.timers = @ \cup {client.now + ReconnectDelay}]
    /\ UNCHANGED <<logVars, bridges, closures, probe, nginx>>

\* EventSource i reports an error:
\* es.onerror = () => { setStatus('reconnecting'); es.close(); setTimeout(connect, 3000); }
EsError(i) ==
    /\ Live(client.conns[i])
    /\ client' = [client EXCEPT !.status = "reconnecting",
                                !.conns = Close([@ EXCEPT ![i].erroredAt = {client.now}],
                                                client.es),
                                !.timers = @ \cup {client.now + ReconnectDelay}]
    /\ UNCHANGED <<logVars, bridges, closures, probe, nginx>>

\* A second passes; a timer that is due fires first.
Advance ==
    /\ client.now < MaxTime
    /\ \A t \in client.timers : t > client.now
    /\ client' = [client EXCEPT !.now = @ + 1]
    /\ UNCHANGED <<logVars, bridges, closures, probe, nginx>>

\* A pending setTimeout is due: connect() runs.
TimerFire ==
    /\ client.now \in client.timers
    /\ Len(client.conns) < MaxConnects
    /\ client' = connect([client EXCEPT !.timers = @ \ {client.now}])
    /\ UNCHANGED <<logVars, bridges, closures, probe, nginx>>

\* The log view is closed: the cleanup of the effect, if (es) es.close().
\* Pending timers are not cleared.
Cleanup ==
    /\ client.mounted
    /\ client' = [client EXCEPT !.mounted = FALSE, !.conns = Close(@, client.es)]
    /\ UNCHANGED <<logVars, bridges, closures, probe, nginx>>

ClientNext ==
    \/ \E i \in 1..Len(client.conns) : EsOpen(i)
    \/ \E i \in 1..Len(client.conns) : EsError(i)
    \/ Advance
    \/ TimerFire
    \/ Cleanup

ClientSpec == ClientInit /\ [][ClientNext]_vars

(***************************************************************************)
(* C19.  Consumer reconnect: an EventSource that has reported an error is  *)
(* closed; until ReconnectDelay seconds later exactly one timer is pending *)
(* for it and no EventSource is made; then exactly one is made, at that    *)
(* time.  Every EventSource but the first is made that way, and at most    *)
(* one is live at any time.                                                *)
(***************************************************************************)
C19_Reconnect ==
    LET conns == client.conns
        n == Len(conns)
    IN  /\ Cardinality({i \in 1..n : Live(conns[i])}) <= 1
        /\ \A i \in 1..n :
              \A t \in conns[i].erroredAt :
                  /\ conns[i].state = "closed"
                  /\ IF i < n
                     THEN conns[i + 1].openedAt = t + ReconnectDelay
                     ELSE /\ client.timers = {t + ReconnectDelay}
                          /\ client.now <= t + ReconnectDelay
        /\ \A i \in 1..(n - 1) : conns[i].erroredAt # {}
        /\ (n = 0 \/ conns[n].erroredAt = {}) => client.timers = {}

\* The second EventSource reported an error after it had opened, and the
\* third one was made ReconnectDelay seconds later.
C19_Witness ==
    /\ Len(client.conns) = 3
    /\ \E t \in client.conns[2].erroredAt :
          /\ t > client.conns[2].openedAt
          /\ client.conns[3].openedAt = t + ReconnectDelay
    /\ client.status = "reconnecting"
    /\ client.mounted

(***************************************************************************)
(* Spec with the scheduling of Node: an awaited promise that settles       *)
(* resumes the route, an interval that is active fires, bytes that the     *)
(* upstream has are delivered.  Nothing obliges the upstream of a followed *)
(* container to end or to fail, nor the consumer to disconnect.            *)
(***************************************************************************)
FairSpec ==
    /\ Init
    /\ [][Next]_vars
    /\ WF_vars(InspectFailed \/ InspectOk)
    /\ WF_vars(LogsOpened \/ \E msg \in ErrMsgs : LogsFailed(msg))
    /\ WF_vars(Tick)
    /\ WF_vars(Data)

LastChunk(cs) == cs[Len(cs)]

\* The algorithm as specified, on L = leftover ++ chunk: while L holds a
\* header and the payload it declares, emit the decoded payload and drop
\* header and payload from the front of L.
RECURSIVE SpecLoop(_, _)
SpecLoop(L, emitted) ==
    IF Len(L) >= 8 /\ Len(L) >= 8 + ReadUInt32BE(L, 4)
    THEN LET n == ReadUInt32BE(L, 4)
         IN  SpecLoop(SubSeq(L, 8 + n + 1, Len(L)),
                      Append(emitted, ToString(SubSeq(L, 9, 8 + n))))
    ELSE [L |-> L, emitted |-> emitted]

(***************************************************************************)
(* C22.  Refinement: every run of the 'data' handler writes the payloads   *)
(* that the specified algorithm emits for leftover ++ chunk, and stores    *)
(* the leftover that the specified algorithm ends with.                    *)
(***************************************************************************)
C22_RefinesSpecLoop ==
    [][chunks' # chunks =>
          LET r == SpecLoop(Concat(leftOver, LastChunk(chunks')), <<>>)
          IN  /\ PayloadTexts(out') = PayloadTexts(out) \o r.emitted
              /\ leftOver' = r.L]_vars

\* A second chunk met a non-empty leftover, completed frames and left
\* bytes behind.
C22_Witness ==
    /\ Len(chunks) = 2
    /\ DataHandler(<<>>, chunks[1]).leftOver # <<>>
    /\ DataHandler(DataHandler(<<>>, chunks[1]).leftOver, chunks[2]).texts # <<>>
    /\ leftOver # <<>>

\* Where the bytes behind the upstream's whole frames begin in source.
TailStart == FrameEnd(Len(frames))

\* Those bytes begin with a header that declares more than source holds.
TailMalformed ==
    /\ Len(source) >= TailStart + 8
    /\ TailStart + 8 + ReadUInt32BE(source, TailStart + 4) > Len(source)

(***************************************************************************)
(* C23.  Malformed input is not an error: once the header that declares    *)
(* more bytes than the upstream will deliver has arrived, every run of the *)
(* 'data' handler leaves written the payloads of the whole frames before   *)
(* it and nothing else, no text for that frame or the bytes behind it and  *)
(* no error; the bytes from that header on are kept as leftover and the    *)
(* bridge stays as it was, open and flowing.                               *)
(***************************************************************************)
C23_WaitsForPayload ==
    [][(/\ chunks' # chunks
        /\ TailMalformed
        /\ Len(Flatten(chunks')) >= TailStart + 8) =>
          /\ PayloadTexts(out') = [k \in 1..Len(frames) |-> ToString(frames[k].payload)]
          /\ WrittenAt(out', "error") = {}
          /\ WrittenAt(out', "catch") = {}
          /\ leftOver' = SubSeq(source, TailStart + 1, Len(Flatten(chunks')))
          /\ ~resEnded'
          /\ logStream' = "flowing"
          /\ heartbeat' = heartbeat
          /\ pc' = "streaming"]_vars

\* The second chunk met the header that declares 256 bytes and left it
\* incomplete; a heartbeat has been written since, and no error.
C23_Witness ==
    /\ Len(chunks) = 2
    /\ Len(DataHandler(<<>>, chunks[1]).leftOver) >= 8
    /\ leftOver = Concat(DataHandler(<<>>, chunks[1]).leftOver, chunks[2])
    /\ out # <<>>
    /\ out[Len(out)].site = "heartbeat"
    /\ logStream = "flowing"
    /\ ~resEnded

(***************************************************************************)
(* C30.  The decode loop terminates: on every run of the 'data' handler    *)
(* the loop ends with an offset within the buffer, every iteration that    *)
(* did not break advanced the offset by 8 at least, and the new leftover   *)
(* is the buffer from that offset on.                                      *)
(***************************************************************************)
C30_LoopTerminates ==
    [][chunks' # chunks =>
          LET buffer == Concat(leftOver, LastChunk(chunks'))
              r == DecodeLoop(buffer, 0, <<>>)
          IN  /\ r.offset <= Len(buffer)
              /\ \A i \in 1..Len(r.emitted) : Len(r.emitted[i].raw) >= 8
              /\ Len(Flatten([i \in 1..Len(r.emitted) |-> r.emitted[i].raw])) = r.offset
              /\ Len(r.emitted) * 8 <= Len(buffer)
              /\ leftOver' = SubSeq(buffer, r.offset + 1, Len(buffer))
              /\ Len(leftOver') = Len(buffer) - r.offset]_vars

\* A chunk made the loop run twice and break on a third header.
C30_Witness ==
    /\ Len(chunks) = 1
    /\ Len(framesOut) = 2
    /\ Len(leftOver) >= 8

(***************************************************************************)
(* C24.  When container.logs(...) has rejected, the timer is cleared, by   *)
(* the one clearInterval call of the catch block; one error event with the *)
(* message of the failure has been written, last, with only heartbeats     *)
(* before it; the response is ended; and no handler exists: there is no    *)
(* upstream, no chunk was handled, and destroy() was never called, also    *)
(* after the consumer's 'close'.                                           *)
(***************************************************************************)
C24_OpenFailed ==
    pc = "openfailed" =>
        /\ status = "sse"
        /\ heartbeat = "cleared"
        /\ clearCalls = 1
        /\ Len(errs) = 1
        /\ Terminals(out) = {Len(out)}
        /\ out[Len(out)] = [kind |-> "data", key |-> "error", value |-> errs[1],
                            site |-> "catch"]
        /\ \A i \in 1..(Len(out) - 1) : out[i] = HeartbeatEvent
        /\ resEnded
        /\ logStream = "none"
        /\ chunks = <<>>
        /\ leftOver = <<>>
        /\ destroyCalls = 0

\* The open failed after a heartbeat had been written, and the consumer has
\* gone since.
C24_Witness ==
    /\ pc = "openfailed"
    /\ Len(out) = 2
    /\ reqClosed

RECURSIVE Rehead(_, _)
Rehead(bytes, h) ==
    IF Len(bytes) >= 8
    THEN LET n == ReadUInt32BE(bytes, 4)
         IN  h \o SubSeq(bytes, 5, Min(8 + n, Len(bytes)))
               \o Rehead(SubSeq(bytes, 8 + n + 1, Len(bytes)), h)
    ELSE bytes

\* bytes cut into chunks of the lengths of cs.
RECURSIVE CutAs(_, _)
CutAs(bytes, cs) ==
    IF cs = <<>>
    THEN <<>>
    ELSE <<SubSeq(bytes, 1, Len(Head(cs)))>>
             \o CutAs(SubSeq(bytes, Len(Head(cs)) + 1, Len(bytes)), Tail(cs))

\* Selector and reserved bytes that a header could carry instead.
HeaderHeads == {<<2, 255, 255, 255>>, <<0, 7, 7, 7>>}

(***************************************************************************)
(* C26.  After every run of the 'data' handler, the payloads written are   *)
(* those the handler writes for the same stream, cut at the same places,   *)
(* with other bytes 0..3 in every header; and while the bytes received lie *)
(* within the upstream's frames, they are the payloads of the frames that  *)
(* have arrived whole, in arrival order, whatever their selectors.         *)
(***************************************************************************)
C26_HeaderHeadIgnored ==
    [][chunks' # chunks =>
          /\ \A h \in HeaderHeads :
                Decoded(<<>>, CutAs(Rehead(source, h), chunks')) = PayloadTexts(out')
          /\ LET arrived == Len(Received) + Len(LastChunk(chunks'))
             IN  arrived <= FrameEnd(Len(frames)) =>
                    PayloadTexts(out') =
                        [k \in 1..Cardinality({j \in 1..Len(frames) :
                                                 FrameEnd(j) <= arrived}) |->
                            ToString(frames[k].payload)]]_vars

\* A frame of stderr and a frame of stdout have arrived in two chunks and
\* both were written.
C26_Witness ==
    /\ Len(frames) = 2
    /\ frames[1].sel = 2
    /\ frames[2].sel = 1
    /\ Len(chunks) = 2
    /\ Len(PayloadTexts(out)) = 2

(***************************************************************************)
(* C27.  As claimed: once the cleanup of the effect has run, no            *)
(* EventSource is live: none is open or connecting, and none is made.      *)
(***************************************************************************)
C27_NothingLiveAfterCleanup ==
    ~client.mounted => \A i \in 1..Len(client.conns) : ~Live(client.conns[i])

(***************************************************************************)
(* POST /test-connection.                                                  *)
(*   let responded = false;                                                *)
(*   const sendResponse = (data, statusCode = 200) => {                    *)
(*     if (!responded) { responded = true;                                 *)
(*                       res.status(statusCode).json(data); } };           *)
(*   const request = protocol.get({...}, (response) => sendResponse(...)); *)
(*   request.on('error', (error) => sendResponse(...));                    *)
(*   request.on('timeout', () => { request.destroy(); sendResponse(...) }) *)
(* probe.sent is every res.status(..).json(..) call made; probe.fired the  *)
(* callbacks that have run, in order.  The probe request calls back as a   *)
(* Node ClientRequest does: the response callback once at most and not     *)
(* after an 'error' or destroy(); 'error' once at most, also as the socket *)
(* hang up that follows destroy(); 'timeout' while it is not destroyed.    *)
(***************************************************************************)
\* The status codes the probed backend answers with.
BackendStatus == {200, 404, 502}

\* error.code of the probe's failures.
ErrorCodes == {"ECONNREFUSED", "ENOTFOUND", "ECONNRESET"}

\* Mutant: sendResponse without the responded flag.
sendResponseUnguarded(p, data, statusCode) ==
    [p EXCEPT !.responded = TRUE,
              !.sent = Append(@, [statusCode |-> statusCode, data |-> data])]

\* const sendResponse = (data, statusCode = 200) => { ... }
sendResponse(p, data, statusCode) ==
    IF ~p.responded
    THEN [p EXCEPT !.responded = TRUE,
                   !.sent = Append(@, [statusCode |-> statusCode, data |-> data])]
    ELSE p

\* Requests of POST /test-connection in progress at once.
NProbes == 2

Probes == 1..NProbes

\* The route has run for every request: protocol.get(...) was called and
\* the handlers are set; each request has its own responded and request.
ProbeInit ==
    /\ probe \in [Probes -> {[useHttps |-> https, responded |-> FALSE, sent |-> <<>>,
                              request |-> "pending", fired |-> <<>>] :
                                 https \in BOOLEAN}]
    /\ bridges = <<>>
    /\ closures = <<>>
    /\ client = <<>>
    /\ nginx = <<>>
    /\ LogIdle

Fired(p, name) == \E i \in 1..Len(p.fired) : p.fired[i] = name

\* The callback of protocol.get of request r: the backend answered with
\* `code'.
ProbeResponse(r, code) ==
    /\ probe[r].request = "pending"
    /\ ~Fired(probe[r], "response")
    /\ ~Fired(probe[r], "error")
    /\ probe' = [probe EXCEPT ![r] =
                    [sendResponse(@,
                         [success |-> TRUE, status |-> code, message |-> "successful",
                          suggestion |-> "none"], 200)
                       EXCEPT !.fired = Append(@, "response")]]
    /\ UNCHANGED <<logVars, bridges, closures, client, nginx>>

\* request.on('error') of request r: a failure of the probe, or the socket
\* hang up that follows request.destroy().
ProbeError(r, code) ==
    /\ ~Fired(probe[r], "error")
    /\ probe[r].request = "destroyed" => code = "ECONNRESET"
    /\ probe' = [probe EXCEPT ![r] =
                    [sendResponse(@,
                         [success |-> FALSE, status |-> 0, message |-> "failed",
                          suggestion |-> IF code = "ECONNREFUSED" THEN "check"
                                                                  ELSE "none"], 200)
                       EXCEPT !.fired = Append(@, "error"), !.request = "destroyed"]]
    /\ UNCHANGED <<logVars, bridges, closures, client, nginx>>

\* request.on('timeout') of request r: request.destroy(), then sendResponse.
ProbeTimeout(r) ==
    /\ probe[r].request = "pending"
    /\ probe' = [probe EXCEPT ![r] =
                    [sendResponse([@ EXCEPT !.request = "destroyed"],
                         [success |-> FALSE, status |-> 0, message |-> "timeout",
                          suggestion |-> "none"], 200)
                       EXCEPT !.fired = Append(@, "timeout")]]
    /\ UNCHANGED <<logVars, bridges, closures, client, nginx>>

ProbeNext ==
    \/ \E r \in Probes, code \in BackendStatus : ProbeResponse(r, code)
    \/ \E r \in Probes, code \in ErrorCodes : ProbeError(r, code)
    \/ \E r \in Probes : ProbeTimeout(r)

ProbeSpec == ProbeInit /\ [][ProbeNext]_vars

\* The message that the callback `name' answers with.
MessageOf(name) ==
    CASE name = "response" -> "successful"
      [] name = "error" -> "failed"
      [] name = "timeout" -> "timeout"

(***************************************************************************)
(* C28.  POST /test-connection answers every request once: never more     *)
(* than one response is sent for a request, and as soon as one of its      *)
(* probe's callbacks has run exactly one has been sent, that of the        *)
(* callback that ran first, with status 200.                               *)
(***************************************************************************)
C28_OneResponse ==
    \A r \in Probes :
        /\ Len(probe[r].sent) <= 1
        /\ probe[r].fired # <<>> =>
              /\ Len(probe[r].sent) = 1
              /\ probe[r].sent[1].statusCode = 200
              /\ probe[r].sent[1].data.message = MessageOf(probe[r].fired[1])

\* One probe timed out and destroying it raised an error; the other one
\* answered, then timed out, and destroying it raised an error.
C28_Witness ==
    /\ probe[1].fired = <<"timeout", "error">>
    /\ probe[1].sent[1].data.message = "timeout"
    /\ probe[2].fired = <<"response", "timeout", "error">>
    /\ Len(probe[2].sent) = 1
    /\ probe[2].sent[1].data.success

(***************************************************************************)
(* POST /configs.  nginx.store is, per domain, the config file in          *)
(* NGINX_CONF_DIR, the link in NGINX_ENABLED_DIR and the metadata file in  *)
(* NGINX_META_DIR.  The route runs to exec('nginx -t', ...) in one piece   *)
(* and goes on in the callbacks of exec.  nginx -t checks the enabled      *)
(* configuration as a whole: it fails when an enabled config file holds    *)
(* text that nginx rejects.  nginx.before is the store as the request in   *)
(* progress found it, nginx.sent every response sent so far.               *)
(***************************************************************************)
Domains == {"a.test", "b.test"}

\* The config texts a request can ask for; nginx rejects "bad".
Contents == {"good", "other", "bad"}

\* Requests served one after the other.
MaxPosts == 2

NoSite == [conf |-> "absent", ssl |-> FALSE, enabled |-> FALSE, meta |-> "absent"]

\* A site as an earlier request that succeeded has stored it.
StoredSite(text) == [conf |-> text, ssl |-> FALSE, enabled |-> TRUE, meta |-> text]

\* req.body: originalDomain is "none" when the request is no rename.
Bodies ==
    [domain : Domains, originalDomain : Domains \cup {"none"}, content : Contents,
     useSsl : BOOLEAN]

\* The rename cleanup: the three files of originalDomain are unlinked.
RemoveOld(store, body) ==
    IF body.originalDomain # "none" /\ body.originalDomain # body.domain
    THEN [store EXCEPT ![body.originalDomain] = NoSite]
    ELSE store

\* fs.writeFileSync(filePath, config); fs.writeFileSync(metaPath, ...);
\* if (!fs.existsSync(enabledPath)) fs.symlinkSync(filePath, enabledPath)
WriteSite(store, body) ==
    [store EXCEPT ![body.domain] =
        [conf |-> body.content, ssl |-> FALSE, enabled |-> TRUE, meta |-> body.content]]

\* exec('nginx -t') fails
TestFails(store) == \E d \in Domains : store[d].enabled /\ store[d].conf = "bad"

Respond(n, statusCode, text) ==
    [n EXCEPT !.sent = Append(@, [statusCode |-> statusCode, text |-> text]),
              !.phase = "idle"]

ConfigInit ==
    /\ \E st \in [Domains -> {NoSite, StoredSite("good")}] :
          nginx = [store |-> st, before |-> st, phase |-> "idle", sent |-> <<>>,
                   body |-> <<>>, posts |-> 0]
    /\ bridges = <<>>
    /\ closures = <<>>
    /\ client = <<>>
    /\ probe = <<>>
    /\ LogIdle

\* router.post('/configs') up to exec('nginx -t', ...).
PostConfigs(body) ==
    /\ nginx.phase = "idle"
    /\ nginx.posts < MaxPosts
    /\ nginx' = [nginx EXCEPT !.before = nginx.store,
                              !.store = WriteSite(RemoveOld(nginx.store, body), body),
                              !.body = body,
                              !.phase = "testing",
                              !.posts = @ + 1]
    /\ UNCHANGED <<logVars, bridges, closures, client, probe>>

\* The callback of exec('nginx -t'): on a failure the 500 answer, else
\* exec('systemctl reload nginx', ...).
NginxTestDone ==
    /\ nginx.phase = "testing"
    /\ nginx' = IF TestFails(nginx.store)
                THEN Respond(nginx, 500, "Nginx config test failed")
                ELSE [nginx EXCEPT !.phase = "reloading"]
    /\ UNCHANGED <<logVars, bridges, closures, client, probe>>

\* The callback of exec('systemctl reload nginx'): certbot when SSL was
\* asked for, else the answer.
ReloadDone ==
    /\ nginx.phase = "reloading"
    /\ nginx' = IF nginx.body.useSsl
                THEN [nginx EXCEPT !.phase = "certbot"]
                ELSE Respond(nginx, 200, "Nginx configuration updated")
    /\ UNCHANGED <<logVars, bridges, closures, client, probe>>

\* The callback of exec(certbotCmd): the 500 answer on a failure; with the
\* certificate files present the config file is written again with SSL on.
CertbotDone(ok, certs) ==
    /\ nginx.phase = "certbot"
    /\ nginx' = IF ~ok
                THEN Respond(nginx, 500, "SSL request failed")
                ELSE IF certs
                THEN Respond([nginx EXCEPT !.store[nginx.body.domain].ssl = TRUE], 200,
                             "Nginx configuration updated and SSL enabled")
                ELSE Respond(nginx, 200, "SSL enabled via Certbot")
    /\ UNCHANGED <<logVars, bridges, closures, client, probe>>

ConfigNext ==
    \/ \E body \in Bodies : PostConfigs(body)
    \/ NginxTestDone
    \/ ReloadDone
    \/ \E ok \in BOOLEAN, certs \in BOOLEAN : CertbotDone(ok, certs)

ConfigSpec == ConfigInit /\ [][ConfigNext]_vars

(***************************************************************************)
(* C29.  As claimed: when the request in progress has been answered with   *)
(* the failure of nginx -t, the answer is a 500 and every domain's config  *)
(* file, link and metadata are as the request found them.                  *)
(***************************************************************************)
C29_UnchangedOnTestFailure ==
    (/\ nginx.phase = "idle"
     /\ nginx.sent # <<>>
     /\ nginx.sent[Len(nginx.sent)].text = "Nginx config test failed") =>
        /\ nginx.sent[Len(nginx.sent)].statusCode = 500
        /\ nginx.store = nginx.before

====
